---- MODULE Spec2Model ----
(***************************************************************************)
(* A model of bravado/mapping/operation.py: the Operation class            *)
(* (build_params, operation_id, construct_request, construct_params,       *)
(* __call__) and the response functions (handle_response,                  *)
(* get_response_spec, unmarshal_response).                                 *)
(*                                                                         *)
(* Python values are encoded as follows.                                   *)
(*   - str: a sequence of one-character strings, so that replace() and     *)
(*     strip() are computed character by character.                        *)
(*   - dict: a function whose DOMAIN is the key set.                       *)
(*   - an optional value (None or a value): None is <<>>, a value v is     *)
(*     <<v>>.                                                              *)
(*   - the iteration order of a Python 2 dict is arbitrary: it is an input *)
(*     of the action that iterates (a permutation chosen with \E).         *)
(***************************************************************************)
EXTENDS Integers, Sequences, FiniteSets, TLC

VARIABLES
    op_spec,         \* Operation.op_spec: dict, optional keys operationId, parameters, responses
    path_spec,       \* swagger_spec.spec_dict['paths'][path_name]: dict, optional key parameters
    http_method,     \* Operation.http_method
    path_name,       \* Operation.path_name
    params,          \* Operation.params: dict name -> Param
    _operation_id,   \* Operation._operation_id: None or str
    pc,              \* per reader thread: its position in the operation_id getter
    ret,             \* per reader thread: what its last read of operation_id returned
    request_options, \* the caller's _request_options object (its 'headers' dict is mutable)
    call,            \* the last invocation: its inputs and what it did
    built,           \* from_spec's position: TRUE once build_params has run
    handled          \* the last handle_response: its inputs and its outcome

vars == <<op_spec, path_spec, http_method, path_name, params, _operation_id,
          pc, ret, request_options, call, built, handled>>

----------------------------------------------------------------------------
(* Python values *)

None == <<>>
Some(v) == <<v>>
IsNone(o) == o = <<>>
Val(o) == o[1]

EmptyDict == [k \in {} |-> None]
Put(d, k, v) == [x \in DOMAIN d \cup {k} |-> IF x = k THEN v ELSE d[x]]
Pop(d, k) == [x \in DOMAIN d \ {k} |-> d[x]]
\* dict.get(k, default) with an optional result
Get(d, k, default) == IF k \in DOMAIN d THEN Some(d[k]) ELSE default

\* all orders in which a dict with key set S can be iterated
Orders(S) == {o \in [1..Cardinality(S) -> S] : \A i, j \in DOMAIN o : o[i] = o[j] => i = j}

----------------------------------------------------------------------------
(* str methods *)

RECURSIVE replace(_, _, _)
\* str.replace(old, new): left to right, non-overlapping, a single pass
replace(s, old, new) ==
    IF Len(s) < Len(old) THEN s
    ELSE IF SubSeq(s, 1, Len(old)) = old
         THEN new \o replace(SubSeq(s, Len(old) + 1, Len(s)), old, new)
         ELSE <<Head(s)>> \o replace(Tail(s), old, new)

RECURSIVE lstrip(_, _)
lstrip(s, ch) == IF s # <<>> /\ Head(s) = ch THEN lstrip(Tail(s), ch) ELSE s

RECURSIVE rstrip(_, _)
rstrip(s, ch) ==
    IF s # <<>> /\ s[Len(s)] = ch THEN rstrip(SubSeq(s, 1, Len(s) - 1), ch) ELSE s

\* str.strip(ch)
strip(s, ch) == rstrip(lstrip(s, ch), ch)

----------------------------------------------------------------------------
(* Operation.operation_id *)

\* lines 81-86: the id built from the http method and the request path
DerivedOperationId(method, path) ==
    strip(replace(replace(replace(replace(method \o <<"_">> \o path,
          <<"/">>, <<"_">>), <<"{">>, <<"_">>), <<"}">>, <<"_">>),
          <<"_", "_">>, <<"_">>), "_")

\* lines 77-87 run without interruption: the new memo and the value returned
operation_id(memo, spec, method, path) ==
    IF IsNone(memo)
    THEN LET declared == Get(spec, "operationId", None)
             id == IF IsNone(declared)
                   THEN Some(DerivedOperationId(method, path))
                   ELSE declared
         IN  [memo |-> id, value |-> id]
    ELSE [memo |-> memo, value |-> memo]

(* Readers of the property.  NumThreads bounds how many threads read it. *)
NumThreads == 3
Threads == 1..NumThreads

\* a read of the property by thread t that no other thread interleaves with
ReadOperationId(t) ==
    /\ pc[t] = "idle"
    /\ LET r == operation_id(_operation_id, op_spec, http_method, path_name)
       IN  /\ _operation_id' = r.memo
           /\ ret' = [ret EXCEPT ![t] = r.value]
    /\ pc' = [pc EXCEPT ![t] = "done"]
    /\ UNCHANGED <<op_spec, path_spec, http_method, path_name, params,
                   request_options, call, built, handled>>

(* The same getter, one attribute access per step, for threads that read  *)
(* the property at the same time.                                         *)
ReaderFrame == UNCHANGED <<op_spec, path_spec, http_method, path_name, params,
                           request_options, call, built, handled>>

\* the property is accessed
Enter(t) ==
    /\ pc[t] = "idle"
    /\ pc' = [pc EXCEPT ![t] = "L77"]
    /\ UNCHANGED <<_operation_id, ret>>
    /\ ReaderFrame

\* line 77: if self._operation_id is None
L77(t) ==
    /\ pc[t] = "L77"
    /\ pc' = [pc EXCEPT ![t] = IF IsNone(_operation_id) THEN "L78" ELSE "L87"]
    /\ UNCHANGED <<_operation_id, ret>>
    /\ ReaderFrame

\* line 78: self._operation_id = self.op_spec.get('operationId')
L78(t) ==
    /\ pc[t] = "L78"
    /\ _operation_id' = Get(op_spec, "operationId", None)
    /\ pc' = [pc EXCEPT ![t] = "L79"]
    /\ UNCHANGED ret
    /\ ReaderFrame

\* line 79: if self._operation_id is None
L79(t) ==
    /\ pc[t] = "L79"
    /\ pc' = [pc EXCEPT ![t] = IF IsNone(_operation_id) THEN "L81" ELSE "L87"]
    /\ UNCHANGED <<_operation_id, ret>>
    /\ ReaderFrame

\* lines 81-86: self._operation_id = the derived id
L81(t) ==
    /\ pc[t] = "L81"
    /\ _operation_id' = Some(DerivedOperationId(http_method, path_name))
    /\ pc' = [pc EXCEPT ![t] = "L87"]
    /\ UNCHANGED ret
    /\ ReaderFrame

\* line 87: return self._operation_id
L87(t) ==
    /\ pc[t] = "L87"
    /\ ret' = [ret EXCEPT ![t] = _operation_id]
    /\ pc' = [pc EXCEPT ![t] = "done"]
    /\ UNCHANGED _operation_id
    /\ ReaderFrame

----------------------------------------------------------------------------
(* Parameters: Param, build_params *)

\* the text of the names and values that are substituted into a url
Chars(x) ==
    CASE x = "petId" -> <<"p", "e", "t", "I", "d">>
      [] x = "limit" -> <<"l", "i", "m", "i", "t">>
      [] x = "token" -> <<"t", "o", "k", "e", "n">>
      [] x = "v1"    -> <<"v", "1">>
      [] x = "d0"    -> <<"d", "0">>
      [] OTHER       -> <<"?">>

\* Param(swagger_spec, param_spec): the view of one parameter declaration
Param(param_spec) ==
    [name        |-> param_spec.name,
     location    |-> param_spec["in"],
     required    |-> Val(Get(param_spec, "required", Some(FALSE))),
     has_default |-> "default" \in DOMAIN param_spec,
     param_spec  |-> param_spec]

RECURSIVE InsertParams(_, _)
\* lines 63-65: for param_spec in param_specs: self.params[param.name] = param
InsertParams(param_specs, acc) ==
    IF param_specs = <<>> THEN acc
    ELSE LET param == Param(Head(param_specs))
         IN  InsertParams(Tail(param_specs), Put(acc, param.name, param))

\* lines 57-65: the params mapping build_params leaves in self.params
build_params(spec, pspec) ==
    LET op_param_specs == Val(Get(spec, "parameters", Some(<<>>)))
        path_param_specs == Val(Get(pspec, "parameters", Some(<<>>)))
        param_specs == op_param_specs \o path_param_specs
    IN  InsertParams(param_specs, EmptyDict)

----------------------------------------------------------------------------
(* marshal_param: one value into its place in the request *)

\* The request dict and the dicts it refers to.  request.headers is a
\* reference into heap: "caller" is the headers dict of the caller's
\* _request_options, "fresh" is a dict created by this invocation.
marshal_param(param, value, st) ==
    LET v == IF IsNone(value) /\ param.has_default
             THEN Some(param.param_spec.default) ELSE value
        text == IF IsNone(v) THEN <<"N", "o", "n", "e">> ELSE Chars(Val(v))
        req == st.request
    IN  CASE param.location = "path" ->
               [st EXCEPT !.request.url =
                   replace(req.url, <<"{">> \o Chars(param.name) \o <<"}">>, text)]
          [] param.location = "query" ->
               [st EXCEPT !.request.params = Put(req.params, param.name, v)]
          [] param.location = "header" ->
               [st EXCEPT !.heap[req.headers] =
                   Put(st.heap[req.headers], param.name, v)]
          [] param.location = "body" ->
               [st EXCEPT !.request = Put(req, "data", v)]
          [] OTHER ->
               [st EXCEPT !.request =
                   Put(req, "data",
                       Put(Val(Get(req, "data", Some(EmptyDict))), param.name, v))]

----------------------------------------------------------------------------
(* Operation.construct_params *)

\* the state a run of construct_params carries: what is left of current_params,
\* the request, the calls of marshal_param made so far, the exception raised
Raise(run, kind, name) ==
    [run EXCEPT !.exc = Some("TypeError"), !.err_kind = kind, !.err_param = Some(name)]

RECURSIVE ConsumeKwargsNoPop(_, _)
\* the first loop with current_params.get in place of current_params.pop
ConsumeKwargsNoPop(kwargs, run) ==
    IF kwargs = <<>> THEN run
    ELSE LET param_name == Head(kwargs)[1]
             param_value == Head(kwargs)[2]
             param == Get(run.current_params, param_name, None)
         IN  IF IsNone(param)
             THEN Raise(run, "no_such_parameter", param_name)
             ELSE ConsumeKwargsNoPop(Tail(kwargs),
                    [run EXCEPT
                       !.st = marshal_param(Val(param), param_value, run.st),
                       !.marshaled = Append(run.marshaled, <<param_name, param_value>>)])

RECURSIVE ConsumeKwargs(_, _)
\* lines 119-124: for param_name, param_value in op_kwargs.iteritems()
ConsumeKwargs(kwargs, run) ==
    IF kwargs = <<>> THEN run
    ELSE LET param_name == Head(kwargs)[1]
             param_value == Head(kwargs)[2]
             param == Get(run.current_params, param_name, None)
         IN  IF IsNone(param)
             THEN Raise(run, "no_such_parameter", param_name)
             ELSE ConsumeKwargs(Tail(kwargs),
                    [run EXCEPT
                       !.current_params = Pop(run.current_params, param_name),
                       !.st = marshal_param(Val(param), param_value, run.st),
                       !.marshaled = Append(run.marshaled, <<param_name, param_value>>)])

RECURSIVE CheckRemainingDefaultFirst(_, _)
\* the second loop with the default applied before required is looked at
CheckRemainingDefaultFirst(order, run) ==
    IF order = <<>> THEN run
    ELSE LET remaining_param == run.current_params[Head(order)]
         IN  IF remaining_param.has_default
             THEN CheckRemainingDefaultFirst(Tail(order),
                    [run EXCEPT
                       !.st = marshal_param(remaining_param, None, run.st),
                       !.marshaled = Append(run.marshaled, <<remaining_param.name, None>>)])
             ELSE IF remaining_param.required
             THEN Raise(run, "required", remaining_param.name)
             ELSE CheckRemainingDefaultFirst(Tail(order), run)

RECURSIVE CheckRemaining(_, _)
\* lines 127-132: for remaining_param in current_params.itervalues()
CheckRemaining(order, run) ==
    IF order = <<>> THEN run
    ELSE LET remaining_param == run.current_params[Head(order)]
         IN  IF remaining_param.required
             THEN Raise(run, "required", remaining_param.name)
             ELSE IF ~remaining_param.required /\ remaining_param.has_default
             THEN CheckRemaining(Tail(order),
                    [run EXCEPT
                       !.st = marshal_param(remaining_param, None, run.st),
                       !.marshaled = Append(run.marshaled, <<remaining_param.name, None>>)])
             ELSE CheckRemaining(Tail(order), run)

\* line 118 and the first loop; op_kwargs is given in its iteration order
ConstructParamsKwargs(ps, st, op_kwargs) ==
    ConsumeKwargs(op_kwargs,
        [current_params |-> ps, st |-> st, marshaled |-> <<>>,
         exc |-> None, err_kind |-> "", err_param |-> None])

\* construct_params without its second loop
construct_params_kwargs_only(ps, st, op_kwargs, order) ==
    ConstructParamsKwargs(ps, st, op_kwargs)

\* the whole of construct_params; order is the iteration order of what the
\* first loop left in current_params
construct_params(ps, st, op_kwargs, order) ==
    LET run == ConstructParamsKwargs(ps, st, op_kwargs)
    IN  IF IsNone(run.exc) THEN CheckRemaining(order, run) ELSE run

----------------------------------------------------------------------------
(* Operation.construct_request and Operation.__call__ *)

\* swagger_spec.api_url
ApiUrl == <<"h", "t", "t", "p", ":", "/", "/", "h">>

\* the request as an observer sees it: the headers reference followed
View(st) == [st.request EXCEPT !.headers = st.heap[st.request.headers]]

\* lines 98-104: the request before construct_params.  opt says what the
\* caller passed as _request_options: nothing ("absent"), a dict without a
\* 'headers' key ("no_headers"), or its options object ("with_headers").
RequestSkeleton(opt) ==
    [request |-> [method  |-> http_method,
                  url     |-> ApiUrl \o path_name,
                  params  |-> EmptyDict,
                  headers |-> IF opt = "with_headers" THEN "caller" ELSE "fresh"],
     heap    |-> [caller |-> request_options.headers, fresh |-> EmptyDict]]

\* the orders current_params can be iterated in once kwargs is consumed
RemainingOrders(kwargs) ==
    LET first == ConstructParamsKwargs(params, RequestSkeleton("absent"), kwargs)
    IN  IF IsNone(first.exc) THEN Orders(DOMAIN first.current_params) ELSE {<<>>}

\* operation(**kwargs), lines 134-142.  kwargs is given in the order its
\* items are iterated; order is the order current_params is iterated in.
\* The caller makes one invocation at a time.
__call__(kwargs, opt) ==
    /\ built
    /\ ~call.made
    /\ \E id \in {operation_id(_operation_id, op_spec, http_method, path_name)},
          st0 \in {RequestSkeleton(opt)},
          order \in RemainingOrders(kwargs) :
         \E run \in {construct_params(params, st0, kwargs, order)} :
           /\ _operation_id' = id.memo
           /\ request_options' = [request_options EXCEPT !.headers = run.st.heap.caller]
           /\ call' = [made      |-> TRUE,
                       kwargs    |-> kwargs,
                       options   |-> opt,
                       exc       |-> run.exc,
                       err_kind  |-> run.err_kind,
                       err_param |-> run.err_param,
                       request0  |-> Some(View(st0)),
                       request   |-> Some(View(run.st)),
                       marshaled |-> run.marshaled,
                       \* lines 141-142: HTTPFuture(http_client, request, ...)
                       future    |-> IF IsNone(run.exc) THEN Some(View(run.st)) ELSE None]
    /\ UNCHANGED <<op_spec, path_spec, http_method, path_name, params,
                   pc, ret, built, handled>>

NoCall ==
    [made |-> FALSE, kwargs |-> <<>>, options |-> "absent", exc |-> None,
     err_kind |-> "", err_param |-> None, request0 |-> None, request |-> None,
     marshaled |-> <<>>, future |-> None]

----------------------------------------------------------------------------
(* Responses: get_response_spec, unmarshal_response, handle_response *)

Digits == <<"0", "1", "2", "3", "4", "5", "6", "7", "8", "9">>

RECURSIVE str(_)
\* str(status_code) of a non-negative int
str(n) == IF n < 10 THEN <<Digits[n + 1]>> ELSE str(n \div 10) \o <<Digits[(n % 10) + 1]>>

Default == <<"d", "e", "f", "a", "u", "l", "t">>

\* get_response_spec with the default entry looked up before the status code
get_response_spec_default_first(status_code, spec) ==
    LET response_specs == spec.responses
        exact == Get(response_specs, str(status_code), None)
        response_spec == Get(response_specs, Default, exact)
    IN  IF IsNone(response_spec)
        THEN [exc |-> Some("SwaggerError"), response_spec |-> None]
        ELSE [exc |-> None, response_spec |-> response_spec]

\* lines 209-217: the response specification, or the SwaggerError raised
get_response_spec(status_code, spec) ==
    LET response_specs == spec.responses
        default_response_spec == Get(response_specs, Default, None)
        response_spec == Get(response_specs, str(status_code), default_response_spec)
    IN  IF IsNone(response_spec)
        THEN [exc |-> Some("SwaggerError"), response_spec |-> None]
        ELSE [exc |-> None, response_spec |-> response_spec]

\* JSON values of a response body
JNull == [t |-> "null", v |-> 0]
JInt(i) == [t |-> "integer", v |-> i]
JStr(i) == [t |-> "string", v |-> i]

\* unmarshal_schema_object(swagger_spec, content_spec, content_value): a null
\* is the absent value, a scalar of the declared type passes through, any
\* other value fails
unmarshal_schema_object(content_spec, content_value) ==
    IF content_value.t = "null" THEN [exc |-> None, value |-> None]
    ELSE IF content_value.t = content_spec.type
    THEN [exc |-> None, value |-> Some(content_value)]
    ELSE [exc |-> Some("SchemaUnmarshalError"), value |-> None]

\* unmarshal_response with response.json() called before has_content
unmarshal_response_reads_first(response_spec, response) ==
    IF ~("schema" \in DOMAIN response_spec)
    THEN [exc |-> None, result |-> Some(<<response.status_code, None>>), json_calls |-> 1]
    ELSE LET u == unmarshal_schema_object(response_spec.schema, response.body)
         IN  IF IsNone(u.exc)
             THEN [exc |-> None, result |-> Some(<<response.status_code, u.value>>),
                   json_calls |-> 1]
             ELSE [exc |-> u.exc, result |-> None, json_calls |-> 1]

\* lines 176-186: the (status_code, value) pair returned or the exception
\* raised, and how many times response.json() was called
unmarshal_response(response_spec, response) ==
    IF ~("schema" \in DOMAIN response_spec)
    THEN [exc |-> None, result |-> Some(<<response.status_code, None>>), json_calls |-> 0]
    ELSE LET content_spec == response_spec.schema
             content_value == response.body
             u == unmarshal_schema_object(content_spec, content_value)
         IN  IF IsNone(u.exc)
             THEN [exc |-> None, result |-> Some(<<response.status_code, u.value>>),
                   json_calls |-> 1]
             ELSE [exc |-> u.exc, result |-> None, json_calls |-> 1]

\* lines 155-163: what handle_response(response, op) did
handle_response(response, spec) ==
    IF response.kind # "requests"
    THEN [exc |-> Some("NotImplementedError"), response_spec |-> None,
          result |-> None, json_calls |-> 0]
    ELSE LET found == get_response_spec(response.status_code, spec)
         IN  IF ~IsNone(found.exc)
             THEN [exc |-> found.exc, response_spec |-> None,
                   result |-> None, json_calls |-> 0]
             ELSE LET u == unmarshal_response(Val(found.response_spec), response)
                  IN  [exc |-> u.exc, response_spec |-> found.response_spec,
                       result |-> u.result, json_calls |-> u.json_calls]

\* the future's callback, lines 138-139: handle_response(response, op).  The
\* message of the SwaggerError formats op, which reads operation_id.
response_future(response) ==
    /\ \E out \in {handle_response(response, op_spec)} :
         /\ handled' = [made |-> TRUE, response |-> Some(response), exc |-> out.exc,
                        response_spec |-> out.response_spec, result |-> out.result,
                        json_calls |-> out.json_calls]
         /\ _operation_id' =
                IF out.exc = Some("SwaggerError")
                THEN operation_id(_operation_id, op_spec, http_method, path_name).memo
                ELSE _operation_id
    /\ UNCHANGED <<op_spec, path_spec, http_method, path_name, params,
                   pc, ret, request_options, call, built>>

\* from_spec, line 48: op.build_params()
from_spec ==
    /\ ~built
    /\ params' = build_params(op_spec, path_spec)
    /\ built' = TRUE
    /\ UNCHANGED <<op_spec, path_spec, http_method, path_name, _operation_id,
                   pc, ret, request_options, call, handled>>

----------------------------------------------------------------------------
(* Inputs *)

\* parameter declarations of the specification
PetIdPath      == [name |-> "petId", in |-> "path", required |-> TRUE]
LimitQuery     == [name |-> "limit", in |-> "query", default |-> "d0"]
LimitRequired  == [name |-> "limit", in |-> "query", required |-> TRUE, default |-> "d0"]
TokenHeader    == [name |-> "token", in |-> "header", required |-> FALSE]
TokenDefault   == [name |-> "token", in |-> "header", default |-> "d0"]
ParamSpecs == {PetIdPath, LimitQuery, LimitRequired, TokenHeader, TokenDefault}

\* MaxParams bounds the length of a parameters list
MaxParams == 2

\* parameters lists: no name is declared twice in one list
ParamLists(n) ==
    {l \in UNION {[1..k -> ParamSpecs] : k \in 0..n} :
        \A i, j \in DOMAIN l : l[i].name = l[j].name => i = j}

\* a dict that declares the list under 'parameters', or has no such key
WithParameters(d, l) == IF l = <<>> THEN d ELSE Put(d, "parameters", l)

\* MaxKwargs bounds the number of keyword arguments of an invocation
MaxKwargs == 2
KwNames == {"petId", "limit", "token", "bogus"}
KwValues == {Some("v1"), None}

\* the kwargs of an invocation, in every iteration order
Kwargs ==
    {kw \in UNION {[1..k -> KwNames \X KwValues] : k \in 0..MaxKwargs} :
        \A i, j \in DOMAIN kw : kw[i][1] = kw[j][1] => i = j}

Options == {"absent", "no_headers", "with_headers"}

\* the _request_options object the caller builds once and passes to its invocations
GivenOptions == [headers |-> [accept |-> Some("v1")]]

PetPath == <<"/", "p", "e", "t", "/", "{", "p", "e", "t", "I", "d", "}">>
Get_ == <<"g", "e", "t">>

\* the caller is done with the request, the future or the exception of its
\* last invocation; the request is not retained
Discard ==
    /\ call.made
    /\ call' = NoCall
    /\ UNCHANGED <<op_spec, path_spec, http_method, path_name, params, _operation_id,
                   pc, ret, request_options, built, handled>>

NoReaders ==
    /\ pc = [t \in Threads |-> "idle"]
    /\ ret = [t \in Threads |-> None]

NoResponse ==
    [made |-> FALSE, response |-> None, exc |-> None, response_spec |-> None,
     result |-> None, json_calls |-> 0]

----------------------------------------------------------------------------
(* Invocations of an operation made by from_spec *)

Init ==
    /\ op_spec \in {WithParameters(EmptyDict, l) : l \in ParamLists(MaxParams)}
    /\ path_spec \in {EmptyDict, [parameters |-> <<TokenDefault>>],
                      [parameters |-> <<LimitQuery>>]}
    /\ http_method = Get_
    /\ path_name = PetPath
    /\ params = build_params(op_spec, path_spec)
    /\ built = TRUE
    /\ _operation_id = None
    /\ NoReaders
    /\ request_options = GivenOptions
    /\ call = NoCall
    /\ handled = NoResponse

Next ==
    \/ \E kwargs \in Kwargs, opt \in Options : __call__(kwargs, opt)
    \/ Discard

Spec == Init /\ [][Next]_vars

----------------------------------------------------------------------------
(* build_params, for the declarations of an operation and of its path *)

InitBuild ==
    /\ op_spec \in {WithParameters(EmptyDict, l) : l \in ParamLists(MaxParams)}
    /\ path_spec \in {WithParameters(EmptyDict, l) : l \in ParamLists(MaxParams)}
    /\ http_method = Get_
    /\ path_name = PetPath
    /\ params = EmptyDict
    /\ built = FALSE
    /\ _operation_id = None
    /\ NoReaders
    /\ request_options = GivenOptions
    /\ call = NoCall
    /\ handled = NoResponse

NextBuild == from_spec

SpecBuild == InitBuild /\ [][NextBuild]_vars

----------------------------------------------------------------------------
(* operation_id, for the methods and the path templates of a specification *)

Post_ == <<"p", "o", "s", "t">>
Methods == {Get_, Post_}

\* the segments of a path template: a literal or a {parameter}
Segments == {<<"p", "e", "t">>, <<"{", "i", "d", "}">>, <<"f", "_", "b">>}

\* MaxSegs bounds the number of segments of a path template
MaxSegs == 3

RECURSIVE JoinPath(_)
JoinPath(segs) ==
    IF segs = <<>> THEN <<>> ELSE <<"/">> \o Head(segs) \o JoinPath(Tail(segs))

PathNames ==
    {IF segs = <<>> THEN <<"/">> ELSE JoinPath(segs) :
        segs \in UNION {[1..k -> Segments] : k \in 0..MaxSegs}}

\* op_spec: without operationId, or with one
IdSpecs == {EmptyDict,
            [operationId |-> <<"g", "e", "t", "P", "e", "t">>],
            [operationId |-> <<"_", "_", "a", "/", "_">>],
            [operationId |-> <<>>]}

InitId ==
    /\ op_spec \in IdSpecs
    /\ path_spec = EmptyDict
    /\ http_method \in Methods
    /\ path_name \in PathNames
    /\ params = EmptyDict
    /\ built = TRUE
    /\ _operation_id = None
    /\ NoReaders
    /\ request_options = GivenOptions
    /\ call = NoCall
    /\ handled = NoResponse

NextId == \E t \in Threads : ReadOperationId(t)

SpecId == InitId /\ [][NextId]_vars

----------------------------------------------------------------------------
(* operation_id read by several threads at once *)

InitRace ==
    /\ op_spec \in IdSpecs
    /\ path_spec = EmptyDict
    /\ http_method = Get_
    /\ path_name \in {PetPath, <<"/">>}
    /\ params = EmptyDict
    /\ built = TRUE
    /\ _operation_id = None
    /\ NoReaders
    /\ request_options = GivenOptions
    /\ call = NoCall
    /\ handled = NoResponse

NextRace ==
    \E t \in Threads :
        \/ Enter(t)
        \/ L77(t)
        \/ L78(t)
        \/ L79(t)
        \/ L81(t)
        \/ L87(t)

SpecRace == InitRace /\ [][NextRace]_vars

----------------------------------------------------------------------------
(* handle_response, for the responses an operation declares *)

StatusCodes == {200, 404, 500}
Bodies == {JNull, JInt(1), JStr(1)}
Responses ==
    [kind : {"requests", "fido"}, status_code : StatusCodes, body : Bodies]

\* response specifications: no content, or content of a schema
ResponseSpecs == {EmptyDict, [schema |-> [type |-> "integer"]],
                  [description |-> "d", schema |-> [type |-> "string"]]}

ResponseKeys == {<<"2", "0", "0">>, <<"4", "0", "4">>, Default}

\* the responses mappings: any of the keys, each with any response specification
ResponsesDicts ==
    UNION {[keys -> ResponseSpecs] : keys \in SUBSET ResponseKeys}

InitResponse ==
    /\ op_spec \in {[responses |-> r] : r \in ResponsesDicts}
    /\ path_spec = EmptyDict
    /\ http_method = Get_
    /\ path_name = PetPath
    /\ params = EmptyDict
    /\ built = TRUE
    /\ _operation_id = None
    /\ NoReaders
    /\ request_options = GivenOptions
    /\ call = NoCall
    /\ handled = NoResponse

NextResponse == \E response \in Responses : response_future(response)

SpecResponse == InitResponse /\ [][NextResponse]_vars

----------------------------------------------------------------------------
(* Properties *)

Names(l) == {l[i].name : i \in DOMAIN l}
OpParamSpecs == Val(Get(op_spec, "parameters", Some(<<>>)))
PathParamSpecs == Val(Get(path_spec, "parameters", Some(<<>>)))

\* C1: after build_params the keys of params are the names declared at the
\* path level and at the operation level, and a name declared at both levels
\* maps to the Param of the operation-level declaration.
C1_OperationLevelOverrides ==
    built =>
        /\ DOMAIN params = Names(OpParamSpecs) \cup Names(PathParamSpecs)
        /\ \A i \in DOMAIN OpParamSpecs :
              OpParamSpecs[i].name \in Names(PathParamSpecs) =>
                  params[OpParamSpecs[i].name] = Param(OpParamSpecs[i])

\* the key a status code is declared under in a responses mapping
StatusKey(status_code) ==
    CASE status_code = 200 -> <<"2", "0", "0">>
      [] status_code = 404 -> <<"4", "0", "4">>
      [] status_code = 500 -> <<"5", "0", "0">>

\* C2: get_response_spec returns the entry under the status code when there
\* is one, else the default entry when there is one, else fails with
\* SwaggerError and no response specification.
C2_GetResponseSpec ==
    (handled.made /\ Val(handled.response).kind = "requests") =>
        LET response_specs == op_spec.responses
            key == StatusKey(Val(handled.response).status_code)
        IN  IF key \in DOMAIN response_specs
            THEN /\ handled.response_spec = Some(response_specs[key])
                 /\ handled.exc # Some("SwaggerError")
            ELSE IF Default \in DOMAIN response_specs
            THEN /\ handled.response_spec = Some(response_specs[Default])
                 /\ handled.exc # Some("SwaggerError")
            ELSE /\ handled.exc = Some("SwaggerError")
                 /\ handled.response_spec = None
                 /\ handled.result = None
                 /\ handled.json_calls = 0

\* a 404 falls back to the default entry although 200 is declared
C2_Witness ==
    /\ handled.made
    /\ Val(handled.response).kind = "requests"
    /\ Val(handled.response).status_code = 404
    /\ DOMAIN op_spec.responses = {<<"2", "0", "0">>, Default}
    /\ op_spec.responses[Default] # op_spec.responses[<<"2", "0", "0">>]
    /\ handled.response_spec = Some(op_spec.responses[Default])

KwNamesOf(kwargs) == {kwargs[i][1] : i \in DOMAIN kwargs}
UnknownNames(c) == KwNamesOf(c.kwargs) \ DOMAIN params
OmittedRequired(c) == {n \in DOMAIN params \ KwNamesOf(c.kwargs) : params[n].required}

\* C3: an invocation whose kwargs name an undeclared parameter or omit a
\* required one fails with TypeError and creates no HTTPFuture: the transport
\* is handed no request.
C3_ArgumentErrorBeforeIO ==
    (call.made /\ (UnknownNames(call) # {} \/ OmittedRequired(call) # {})) =>
        /\ call.exc = Some("TypeError")
        /\ call.future = None

\* an undeclared name after a declared one, and a required parameter omitted
C3_Witness ==
    /\ call.made
    /\ Len(call.kwargs) = 2
    /\ call.kwargs[1][1] \in DOMAIN params
    /\ call.kwargs[2][1] \notin DOMAIN params
    /\ OmittedRequired(call) # {}
    /\ call.exc = Some("TypeError")
    /\ call.future = None

\* C4: when the kwargs name only declared parameters and omit a required
\* one, the TypeError names a required parameter that was omitted.
C4_MissingRequiredNamed ==
    (call.made /\ UnknownNames(call) = {} /\ OmittedRequired(call) # {}) =>
        /\ call.exc = Some("TypeError")
        /\ call.err_kind = "required"
        /\ ~IsNone(call.err_param)
        /\ Val(call.err_param) \in OmittedRequired(call)

\* the omitted required parameter declares a default, and another parameter
\* was supplied and a third is optional
C4_Witness ==
    /\ call.made
    /\ UnknownNames(call) = {}
    /\ call.err_param = Some("limit")
    /\ params["limit"].required /\ params["limit"].has_default
    /\ Len(call.kwargs) = 1
    /\ \E n \in DOMAIN params \ KwNamesOf(call.kwargs) : ~params[n].required
    /\ call.exc = Some("TypeError")

\* the calls of marshal_param a successful construct_params makes
ExpectedMarshaled(c) ==
    {c.kwargs[i] : i \in DOMAIN c.kwargs}
    \cup {<<n, None>> : n \in {m \in DOMAIN params \ KwNamesOf(c.kwargs) :
                                  ~params[m].required /\ params[m].has_default}}

\* C5: when construct_params returns, marshal_param was called once for each
\* supplied kwarg with its value, once with None for each omitted optional
\* parameter that has a default, and for nothing else.
C5_MarshaledExactly ==
    (call.made /\ IsNone(call.exc)) =>
        /\ {call.marshaled[i] : i \in DOMAIN call.marshaled} = ExpectedMarshaled(call)
        /\ Len(call.marshaled) = Cardinality(ExpectedMarshaled(call))

\* one parameter supplied, one default applied, one optional parameter left out
C5_Witness ==
    /\ call.made
    /\ IsNone(call.exc)
    /\ call.kwargs = <<<<"petId", Some("v1")>>>>
    /\ call.marshaled = <<<<"petId", Some("v1")>>, <<"limit", None>>>>
    /\ DOMAIN params = {"petId", "limit", "token"}
    /\ ~params["token"].has_default

\* C6: an invocation whose kwargs name an undeclared parameter fails with
\* TypeError and leaves the request as it was before construct_params: no
\* supplied parameter has been marshaled.
C6_NoPartialMutation ==
    (call.made /\ UnknownNames(call) # {}) =>
        /\ call.exc = Some("TypeError")
        /\ call.request = call.request0
        /\ call.marshaled = <<>>

\* the character a character of method + '_' + path becomes
Lower(ch) ==
    CASE ch = "G" -> "g" [] ch = "E" -> "e" [] ch = "T" -> "t"
      [] ch = "P" -> "p" [] ch = "O" -> "o" [] ch = "S" -> "s"
      [] OTHER -> ch
Underscored(ch) == IF ch \in {"/", "{", "}"} THEN "_" ELSE ch

RECURSIVE CollapseRuns(_)
\* every run of underscores becomes one underscore
CollapseRuns(s) ==
    IF Len(s) < 2 THEN s
    ELSE IF s[1] = "_" /\ s[2] = "_" THEN CollapseRuns(Tail(s))
    ELSE <<Head(s)>> \o CollapseRuns(Tail(s))

ExpectedDerivedId(method, path) ==
    LET raw == [i \in 1..Len(method) |-> Lower(method[i])] \o <<"_">> \o path
    IN  strip(CollapseRuns([i \in 1..Len(raw) |-> Underscored(raw[i])]), "_")

\* C7: operation_id is the declared operationId, and without one it is the
\* lowercased method + '_' + path with '/', '{', '}' replaced by '_', runs of
\* underscores collapsed to one and leading and trailing underscores trimmed.
C7_OperationId ==
    \A t \in Threads :
        pc[t] = "done" =>
            ret[t] = IF "operationId" \in DOMAIN op_spec
                     THEN Some(op_spec.operationId)
                     ELSE Some(ExpectedDerivedId(http_method, path_name))

\* C8: unmarshal_response returns (status_code, None) without reading the
\* body when the response specification has no schema, and otherwise reads the
\* body once and returns (status_code, unmarshal_schema_object(schema, body)).
C8_UnmarshalResponse ==
    (handled.made /\ ~IsNone(handled.response_spec)) =>
        LET response_spec == Val(handled.response_spec)
            response == Val(handled.response)
        IN  IF "schema" \notin DOMAIN response_spec
            THEN /\ handled.result = Some(<<response.status_code, None>>)
                 /\ handled.json_calls = 0
                 /\ IsNone(handled.exc)
            ELSE LET u == unmarshal_schema_object(response_spec.schema, response.body)
                 IN  /\ handled.json_calls = 1
                     /\ handled.exc = u.exc
                     /\ IsNone(u.exc) =>
                            handled.result = Some(<<response.status_code, u.value>>)
                     /\ ~IsNone(u.exc) => handled.result = None

\* a response with a body, under a specification without schema
C8_Witness ==
    /\ handled.made
    /\ ~IsNone(handled.response_spec)
    /\ "schema" \notin DOMAIN Val(handled.response_spec)
    /\ Val(handled.response).body = JInt(1)
    /\ handled.result = Some(<<404, None>>)
    /\ handled.json_calls = 0

\* what a read of operation_id returns when no other thread reads
SequentialId == operation_id(None, op_spec, http_method, path_name).value

\* C9: whatever the interleaving of the readers, every read returns what a
\* sequential read returns, and once a read has returned the memoized value is
\* that value and stays so.
C9_ConcurrentReads ==
    \A t \in Threads :
        pc[t] = "done" =>
            /\ ret[t] = SequentialId
            /\ _operation_id = SequentialId

RECURSIVE HeaderParams(_, _)
\* the headers the marshaled parameters of one invocation add to h
HeaderParams(marshaled, h) ==
    IF marshaled = <<>> THEN h
    ELSE LET param == params[Head(marshaled)[1]]
             value == Head(marshaled)[2]
             v == IF IsNone(value) /\ param.has_default
                  THEN Some(param.param_spec.default) ELSE value
         IN  HeaderParams(Tail(marshaled),
                          IF param.location = "header" THEN Put(h, param.name, v) ELSE h)

\* C10: an invocation leaves the caller's _request_options and the
\* operation's params as they were, and the headers of its request are the
\* headers given in _request_options plus its own header parameters.
C10_NoSharedState ==
    /\ request_options = GivenOptions
    /\ params = build_params(op_spec, path_spec)
    /\ (call.made /\ IsNone(call.exc) /\ call.options = "with_headers") =>
           Val(call.request).headers = HeaderParams(call.marshaled, GivenOptions.headers)

====
